---------------------------- MODULE Spec2Model ----------------------------
(***************************************************************************)
(* Model of assistant_bot.py: the contact directory (AddressBook of        *)
(* Records), its field validators, the birthday arithmetic, the pickle     *)
(* persistence and the command loop of main().                             *)
(*                                                                         *)
(* Conventions.                                                            *)
(*  - A Python str that the code inspects character by character (a phone) *)
(*    is a sequence of one-character strings.  A name is a TLA+ string.     *)
(*  - A text handed to Birthday() is <<d, m, y>> when it matches the        *)
(*    pattern %d.%m.%Y with those numeric fields and <<>> when it does not. *)
(*  - A datetime.date is <<year, month, day>>; Python's None is <<>>.       *)
(*  - A call that may raise returns <<status, value>> with status "ok" or   *)
(*    the name of the exception.                                            *)
(***************************************************************************)
EXTENDS Integers, Sequences, FiniteSets, TLC

VARIABLES
    pc,      \* position of main(): "start", "loop", "exited", "crashed"
    file,    \* addressbook.pkl: [exists |-> BOOLEAN, bytes |-> Seq(token)]
    book,    \* AddressBook.data: sequence (insertion order) of [key, rec]
    line,    \* user_input.split() of the command being handled
    out,     \* the last text printed
    ret,     \* the value the last handler worked out before rendering it
    clock,   \* the value datetime.today().date() returned to the last scan
    arg,     \* input of the pure function applied by SpecPhone / SpecDate
    res      \* its result

vars == <<pc, file, book, line, out, ret, clock, arg, res>>

None == <<>>

-----------------------------------------------------------------------------
(* datetime.date                                                           *)

IsLeap(y) == (y % 4 = 0) /\ ((y % 100 # 0) \/ (y % 400 = 0))

DaysInMonth(y, m) ==
    IF m = 2 THEN (IF IsLeap(y) THEN 29 ELSE 28)
    ELSE IF m \in {4, 6, 9, 11} THEN 30 ELSE 31

IsDate(y, m, d) ==
    /\ y \in 1..9999
    /\ m \in 1..12
    /\ d \in 1..DaysInMonth(y, m)

DaysBeforeYear(y) ==
    365 * (y - 1) + ((y - 1) \div 4) - ((y - 1) \div 100) + ((y - 1) \div 400)

RECURSIVE DaysBeforeMonth(_, _)
DaysBeforeMonth(y, m) ==
    IF m = 1 THEN 0 ELSE DaysBeforeMonth(y, m - 1) + DaysInMonth(y, m - 1)

\* date.toordinal()
ToOrdinal(dt) == DaysBeforeYear(dt[1]) + DaysBeforeMonth(dt[1], dt[2]) + dt[3]

\* date.__lt__
DateLess(a, b) ==
    \/ a[1] < b[1]
    \/ a[1] = b[1] /\ a[2] < b[2]
    \/ a[1] = b[1] /\ a[2] = b[2] /\ a[3] < b[3]

\* (a - b).days
DaysBetween(a, b) == ToOrdinal(a) - ToOrdinal(b)

\* date.replace(year=y): raises ValueError when the day does not exist in y
ReplaceYear(dt, y) ==
    IF IsDate(y, dt[2], dt[3]) THEN <<"ok", <<y, dt[2], dt[3]>>>>
    ELSE <<"ValueError", None>>

-----------------------------------------------------------------------------
(* Field validators                                                        *)

AsciiDigits == {"0", "1", "2", "3", "4", "5", "6", "7", "8", "9"}

\* Characters outside 0-9 for which str.isdigit() is true as well:
\* U+00B2 SUPERSCRIPT TWO, U+0663 ARABIC-INDIC DIGIT THREE.
UnicodeDigits == {"SUPERSCRIPT_TWO", "ARABIC_INDIC_THREE"}

\* str.isdigit(): at least one character, every character a Unicode digit
IsDigitStr(s) ==
    /\ Len(s) > 0
    /\ \A i \in 1..Len(s) : s[i] \in AsciiDigits \cup UnicodeDigits

PhoneLen == 10

\* Phone.is_valid
Phone_is_valid(value) == IsDigitStr(value) /\ Len(value) = PhoneLen

\* Phone(value): the Phone object is modelled by its .value
Phone(value) ==
    IF Phone_is_valid(value) THEN <<"ok", value>>
    ELSE <<"ValueError", <<>>>>

\* Field.__str__ of a stored phone
PhoneStr(p) == p

\* Birthday(value): datetime.strptime(value, "%d.%m.%Y").date()
Birthday(value) ==
    IF Len(value) = 3 /\ IsDate(value[3], value[2], value[1])
    THEN <<"ok", <<value[3], value[2], value[1]>>>>
    ELSE <<"ValueError", None>>

\* Name.is_valid: a non-empty string after strip()
Name_is_valid(value) == value # ""

-----------------------------------------------------------------------------
(* Record                                                                  *)

\* Record.__init__
NewRecord(name) == [name |-> name, phones |-> <<>>, birthday |-> None]

\* Record.add_phone
add_phone(rec, phone) == [rec EXCEPT !.phones = Append(@, phone)]

RECURSIVE FilterOut(_, _)
FilterOut(phones, value) ==
    IF phones = <<>> THEN <<>>
    ELSE IF Head(phones) # value
         THEN <<Head(phones)>> \o FilterOut(Tail(phones), value)
         ELSE FilterOut(Tail(phones), value)

\* Record.remove_phone
remove_phone(rec, phone) == [rec EXCEPT !.phones = FilterOut(@, phone)]

\* edit_phone that validates new_phone before it removes old_phone
edit_phone_validate_first(rec, old_phone, new_phone) ==
    LET p == Phone(new_phone)
    IN  IF p[1] = "ok" THEN <<"ok", add_phone(remove_phone(rec, old_phone), p[2])>>
        ELSE <<"ValueError", rec>>

\* Record.edit_phone: <<status, record afterwards>>
edit_phone(rec, old_phone, new_phone) ==
    LET removed == remove_phone(rec, old_phone)
        p == Phone(new_phone)
    IN  IF p[1] = "ok" THEN <<"ok", add_phone(removed, p[2])>>
        ELSE <<"ValueError", removed>>

\* Record.add_birthday
add_birthday_rec(rec, birthday) == [rec EXCEPT !.birthday = birthday]

\* days_to_birthday with `next_birthday <= today` for line 90's `<`
days_to_birthday_le(birthday, today) ==
    IF birthday = None THEN <<"None", 0>>
    ELSE LET r1 == ReplaceYear(birthday, today[1])
         IN  IF r1[1] # "ok" THEN <<"ValueError", 0>>
             ELSE IF ~DateLess(today, r1[2])
                  THEN LET r2 == ReplaceYear(r1[2], today[1] + 1)
                       IN  IF r2[1] # "ok" THEN <<"ValueError", 0>>
                           ELSE <<"ok", DaysBetween(r2[2], today)>>
                  ELSE <<"ok", DaysBetween(r1[2], today)>>

\* Record.days_to_birthday: <<"None", 0>>, <<"ok", days>> or <<"ValueError", 0>>
days_to_birthday(birthday, today) ==
    IF birthday = None THEN <<"None", 0>>
    ELSE LET r1 == ReplaceYear(birthday, today[1])
         IN  IF r1[1] # "ok" THEN <<"ValueError", 0>>
             ELSE IF DateLess(r1[2], today)
                  THEN LET r2 == ReplaceYear(r1[2], today[1] + 1)
                       IN  IF r2[1] # "ok" THEN <<"ValueError", 0>>
                           ELSE <<"ok", DaysBetween(r2[2], today)>>
                  ELSE <<"ok", DaysBetween(r1[2], today)>>

-----------------------------------------------------------------------------
(* Rendering                                                               *)

DigitChar(n) == <<"0", "1", "2", "3", "4", "5", "6", "7", "8", "9">>[n + 1]

\* "%02d"
TwoDigits(n) == DigitChar((n \div 10) % 10) \o DigitChar(n % 10)

\* date.strftime("%d.%m.%Y")
Strftime(dt) ==
    TwoDigits(dt[3]) \o "." \o TwoDigits(dt[2]) \o "."
        \o TwoDigits(dt[1] \div 100) \o TwoDigits(dt[1] % 100)

\* "".join(chars): the Python str of a phone
RECURSIVE Chars2Str(_)
Chars2Str(s) == IF s = <<>> THEN "" ELSE Head(s) \o Chars2Str(Tail(s))

\* sep.join(strs)
RECURSIVE Join(_, _)
Join(strs, sep) ==
    IF strs = <<>> THEN ""
    ELSE IF Len(strs) = 1 THEN Head(strs)
    ELSE Head(strs) \o sep \o Join(Tail(strs), sep)

PhonesStr(phones) ==
    Join([i \in 1..Len(phones) |-> Chars2Str(PhoneStr(phones[i]))], ", ")

\* Record.__str__
Record__str__(rec) ==
    rec.name \o ": Phones: [" \o PhonesStr(rec.phones) \o "], Birthday: "
        \o (IF rec.birthday # None THEN Strftime(rec.birthday) ELSE "N/A")

-----------------------------------------------------------------------------
(* AddressBook: data is a sequence of [key, rec] in insertion order         *)

\* position of the key in the dict (keys are unique), 0 when the key is absent
IndexOf(data, key) ==
    IF \E i \in 1..Len(data) : data[i].key = key
    THEN CHOOSE i \in 1..Len(data) : data[i].key = key
    ELSE 0

\* AddressBook.find_record: self.data.get(name), as the position of the record
find_record(data, name) == IndexOf(data, name)

\* AddressBook.add_record: self.data[record.name.value] = record
add_record(data, record) ==
    LET i == IndexOf(data, record.name)
    IN  IF i = 0 THEN Append(data, [key |-> record.name, rec |-> record])
        ELSE [data EXCEPT ![i].rec = record]

\* the record at position i mutated in place
SetRec(data, i, record) == [data EXCEPT ![i].rec = record]

\* self.data.values()
Values(data) == [i \in 1..Len(data) |-> data[i].rec]

DefaultDays == 7

RECURSIVE ScanFrom(_, _, _, _)
\* the loop of get_upcoming_birthdays over records[1..], `acc` is upcoming_birthdays
ScanFrom(records, days, today, acc) ==
    IF records = <<>> THEN <<"ok", acc>>
    ELSE LET record == Head(records)
             rest == Tail(records)
         IN  IF record.birthday = None THEN ScanFrom(rest, days, today, acc)
             ELSE LET r1 == ReplaceYear(record.birthday, today[1])
                  IN  IF r1[1] # "ok" THEN <<"ValueError", <<>>>>
                      ELSE LET r2 == IF DateLess(r1[2], today)
                                     THEN ReplaceYear(r1[2], today[1] + 1)
                                     ELSE r1
                           IN  IF r2[1] # "ok" THEN <<"ValueError", <<>>>>
                               ELSE IF 0 <= DaysBetween(r2[2], today)
                                       /\ DaysBetween(r2[2], today) <= days
                                    THEN ScanFrom(rest, days, today, Append(acc, record))
                                    ELSE ScanFrom(rest, days, today, acc)

\* AddressBook.get_upcoming_birthdays: <<"ok", records>> or <<"ValueError", <<>>>>
get_upcoming_birthdays(data, days, today) ==
    ScanFrom(Values(data), days, today, <<>>)

\* AddressBook.__str__
AddressBook__str__(data) ==
    Join([i \in 1..Len(data) |-> Record__str__(data[i].rec)], "\n")

-----------------------------------------------------------------------------
(* Persistence: pickle.dump / pickle.load of the AddressBook                *)
(* The byte stream is a sequence of opcode tokens: PROTO, then for each dict *)
(* item KEY, NAME, PHONES, BDAY, then STOP.                                  *)

RECURSIVE PickleItems_noBirthday(_)
\* a pickle that leaves the birthday attribute out of a Record's state
PickleItems_noBirthday(data) ==
    IF data = <<>> THEN <<>>
    ELSE << <<"KEY", Head(data).key>>,
            <<"NAME", Head(data).rec.name>>,
            <<"PHONES", Head(data).rec.phones>>,
            <<"BDAY", None>> >> \o PickleItems_noBirthday(Tail(data))

RECURSIVE PickleItems(_)
PickleItems(data) ==
    IF data = <<>> THEN <<>>
    ELSE << <<"KEY", Head(data).key>>,
            <<"NAME", Head(data).rec.name>>,
            <<"PHONES", Head(data).rec.phones>>,
            <<"BDAY", Head(data).rec.birthday>> >> \o PickleItems(Tail(data))

\* pickle.dump(book, f)
Pickle(data) == << <<"PROTO">> >> \o PickleItems(data) \o << <<"STOP">> >>

\* the stream is well formed: framed by PROTO/STOP, items of four opcodes
WellFormed(bytes) ==
    /\ Len(bytes) >= 2
    /\ bytes[1][1] = "PROTO"
    /\ bytes[Len(bytes)][1] = "STOP"
    /\ (Len(bytes) - 2) % 4 = 0
    /\ \A i \in 2..(Len(bytes) - 1) :
          bytes[i][1] = <<"KEY", "NAME", "PHONES", "BDAY">>[((i - 2) % 4) + 1]

RECURSIVE UnpickleItems(_)
UnpickleItems(items) ==
    IF items = <<>> THEN <<>>
    ELSE << [key |-> items[1][2],
             rec |-> [name |-> items[2][2],
                      phones |-> items[3][2],
                      birthday |-> items[4][2]]] >>
         \o UnpickleItems(SubSeq(items, 5, Len(items)))

\* pickle.load(f): <<"ok", data>> or <<"UnpicklingError", <<>>>>
Unpickle(bytes) ==
    IF WellFormed(bytes)
    THEN <<"ok", UnpickleItems(SubSeq(bytes, 2, Len(bytes) - 1))>>
    ELSE <<"UnpicklingError", <<>>>>

Absent == [exists |-> FALSE, bytes |-> <<>>]

\* save_data: open(filename, "wb") truncates, pickle.dump writes
save_data(data) == [exists |-> TRUE, bytes |-> Pickle(data)]

\* load_data with `except Exception` for `except FileNotFoundError`
load_data_broad(f) ==
    IF ~f.exists THEN <<"ok", <<>>>>
    ELSE IF Unpickle(f.bytes)[1] = "ok" THEN Unpickle(f.bytes)
    ELSE <<"ok", <<>>>>

\* load_data: only FileNotFoundError is caught
load_data(f) ==
    IF ~f.exists THEN <<"ok", <<>>>>
    ELSE Unpickle(f.bytes)

-----------------------------------------------------------------------------
(* Command handlers.  A handler's outcome is                                *)
(*   [st |-> "ok" or the exception raised, msg |-> the returned text or the  *)
(*    exception's text, data |-> the AddressBook afterwards, val |-> the     *)
(*    value the text was rendered from].                                     *)

Outcome(st, msg, data, val) == [st |-> st, msg |-> msg, data |-> data, val |-> val]

\* input_error: the text the decorated handler returns
input_error(r) ==
    CASE r.st = "ok" -> r.msg
      [] r.st = "ValueError" -> "Error: " \o r.msg
      [] r.st = "KeyError" -> "Error: Contact not found."
      [] r.st = "IndexError" -> "Error: Invalid input. Please provide correct arguments."

PhoneErr == "Phone number must be 10 digits."
BirthdayErr == "Invalid date format. Use DD.MM.YYYY"
UnpackFewErr == "not enough values to unpack"
UnpackManyErr == "too many values to unpack"
ReplaceErr == "day is out of range for month"

\* add_contact's tail validating both fields before it touches the record
add_contact_fields_checked(data, i, phone, rest, message) ==
    LET p == Phone(phone)
        b == Birthday(rest[1])
    IN  IF phone # <<>> /\ p[1] # "ok"
        THEN Outcome("ValueError", PhoneErr, data, <<>>)
        ELSE IF rest # <<>> /\ b[1] # "ok"
        THEN Outcome("ValueError", BirthdayErr, data, <<>>)
        ELSE LET d1 == IF phone # <<>>
                       THEN SetRec(data, i, add_phone(data[i].rec, p[2]))
                       ELSE data
             IN  IF rest = <<>> THEN Outcome("ok", message, d1, <<>>)
                 ELSE Outcome("ok", message,
                              SetRec(d1, i, add_birthday_rec(d1[i].rec, b[2])), <<>>)

\* add_contact, from `if phone:` on; `i` is the position of `record`
add_contact_fields(data, i, phone, rest, message) ==
    LET p == Phone(phone)
    IN  IF phone # <<>> /\ p[1] # "ok"
        THEN Outcome("ValueError", PhoneErr, data, <<>>)
        ELSE LET d1 == IF phone # <<>>
                       THEN SetRec(data, i, add_phone(data[i].rec, p[2]))
                       ELSE data
                 b == Birthday(rest[1])
             IN  IF rest = <<>> THEN Outcome("ok", message, d1, <<>>)
                 ELSE IF b[1] # "ok"
                      THEN Outcome("ValueError", BirthdayErr, d1, <<>>)
                      ELSE Outcome("ok", message,
                                   SetRec(d1, i, add_birthday_rec(d1[i].rec, b[2])),
                                   <<>>)

\* add_contact that builds a fresh Record on every call and stores it under
\* the name, replacing the record the name had
add_contact_replace(args, data) ==
    IF Len(args) < 2 THEN Outcome("ValueError", UnpackFewErr, data, <<>>)
    ELSE LET name == args[1]
             d0 == add_record(data, NewRecord(name))
         IN  add_contact_fields(d0, find_record(d0, name), args[2],
                                SubSeq(args, 3, Len(args)),
                                IF find_record(data, name) = 0
                                THEN "Contact added." ELSE "Contact updated.")

\* add_contact
add_contact(args, data) ==
    IF Len(args) < 2 THEN Outcome("ValueError", UnpackFewErr, data, <<>>)
    ELSE LET name == args[1]
             phone == args[2]
             rest == SubSeq(args, 3, Len(args))
             found == find_record(data, name)
         IN  IF found = 0
             THEN IF ~Name_is_valid(name)
                  THEN Outcome("ValueError", "Name must be a non-empty string.", data, <<>>)
                  ELSE LET d0 == add_record(data, NewRecord(name))
                       IN  add_contact_fields(d0, find_record(d0, name), phone, rest,
                                              "Contact added.")
             ELSE add_contact_fields(data, found, phone, rest, "Contact updated.")

\* change_contact
change_contact(args, data) ==
    IF Len(args) < 3 THEN Outcome("ValueError", UnpackFewErr, data, <<>>)
    ELSE IF Len(args) > 3 THEN Outcome("ValueError", UnpackManyErr, data, <<>>)
    ELSE LET name == args[1]
             i == find_record(data, name)
         IN  IF i = 0 THEN Outcome("KeyError", "", data, <<>>)
             ELSE LET e == edit_phone(data[i].rec, args[2], args[3])
                  IN  IF e[1] # "ok"
                      THEN Outcome("ValueError", PhoneErr, SetRec(data, i, e[2]), <<>>)
                      ELSE Outcome("ok", "Contact " \o name \o " updated.",
                                   SetRec(data, i, e[2]), <<>>)

\* show_phone
show_phone(args, data) ==
    IF Len(args) < 1 THEN Outcome("IndexError", "", data, <<>>)
    ELSE LET name == args[1]
             i == find_record(data, name)
         IN  IF i = 0 THEN Outcome("KeyError", "", data, <<>>)
             ELSE Outcome("ok", name \o ": " \o PhonesStr(data[i].rec.phones),
                          data, data[i].rec.phones)

\* add_birthday
add_birthday(args, data) ==
    IF Len(args) < 2 THEN Outcome("ValueError", UnpackFewErr, data, <<>>)
    ELSE IF Len(args) > 2 THEN Outcome("ValueError", UnpackManyErr, data, <<>>)
    ELSE LET name == args[1]
             i == find_record(data, name)
             b == Birthday(args[2])
         IN  IF i = 0 THEN Outcome("KeyError", "", data, <<>>)
             ELSE IF b[1] # "ok" THEN Outcome("ValueError", BirthdayErr, data, <<>>)
             ELSE Outcome("ok", "Birthday added for " \o name \o ".",
                          SetRec(data, i, add_birthday_rec(data[i].rec, b[2])), <<>>)

\* show_birthday
show_birthday(args, data) ==
    IF Len(args) < 1 THEN Outcome("IndexError", "", data, <<>>)
    ELSE LET name == args[1]
             i == find_record(data, name)
         IN  IF i = 0 \/ data[i].rec.birthday = None
             THEN Outcome("KeyError", "", data, <<>>)
             ELSE Outcome("ok",
                          name \o "'s birthday is " \o Strftime(data[i].rec.birthday) \o ".",
                          data, <<data[i].rec.birthday>>)

\* upcoming_birthdays; `today` is what datetime.today().date() returns
upcoming_birthdays(data, today) ==
    LET u == get_upcoming_birthdays(data, DefaultDays, today)
    IN  IF u[1] # "ok" THEN Outcome("ValueError", ReplaceErr, data, <<>>)
        ELSE IF u[2] = <<>> THEN Outcome("ok", "No upcoming birthdays.", data, u[2])
        ELSE Outcome("ok",
                     Join([i \in 1..Len(u[2]) |-> Record__str__(u[2][i])], "\n"),
                     data, u[2])

\* show_all
show_all(data) == Outcome("ok", AddressBook__str__(data), data, Values(data))

-----------------------------------------------------------------------------
(* Inputs                                                                   *)

MaxPhones == 2
MaxRawLen == 11
YearSpan == 2

Names == {"Ann", "Bob"}

P1 == <<"0", "5", "0", "1", "2", "3", "4", "5", "6", "7">>
P2 == <<"0", "6", "7", "7", "6", "5", "4", "3", "2", "1">>
ShortPhone == <<"1", "2", "3">>
ValidPhones == {P1, P2}
PhoneInputs == ValidPhones \cup {ShortPhone}

\* texts for Birthday(): 27.02.1990, 29.02.2024, 31.02.2024 and, for the add
\* command, 27.02.1990 and "soon"
BirthdayInputs == {<<27, 2, 1990>>, <<29, 2, 2024>>, <<31, 2, 2024>>}
AddBirthdayInputs == {<<27, 2, 1990>>, <<>>}

\* values of datetime.today().date() seen by the `birthdays` command
Todays == {<<2024, 2, 19>>, <<2024, 2, 20>>, <<2024, 2, 25>>, <<2024, 2, 27>>,
           <<2024, 3, 1>>, <<2025, 2, 25>>}

CommandWords == {"hello", "add", "change", "phone", "all", "add-birthday",
                 "show-birthday", "birthdays", "close", "exit"}

\* command words main() does not know (the comparison is case-sensitive)
UnknownWords == {"help", "Add"}

\* a pickle written by an earlier session, and two files pickle.load rejects
StoredBook ==
    << [key |-> "Bob",
        rec |-> [name |-> "Bob", phones |-> <<P2>>, birthday |-> <<1990, 2, 27>>]] >>
Garbage == [exists |-> TRUE, bytes |-> << <<"JUNK">> >>]
Truncated == [exists |-> TRUE, bytes |-> << <<"PROTO">>, <<"KEY", "Bob">> >>]
InitialFiles == {Absent, Garbage, Truncated, save_data(StoredBook)}

RECURSIVE PhoneCount(_)
PhoneCount(data) ==
    IF data = <<>> THEN 0 ELSE Len(Head(data).rec.phones) + PhoneCount(Tail(data))

\* the model's cap on the phones stored in the directory (the code has none)
WithinBounds(data) == PhoneCount(data) <= MaxPhones

-----------------------------------------------------------------------------
(* main()                                                                   *)

\* one handler call of the loop: print(handler(args, book))
Handled(r) ==
    /\ WithinBounds(r.data)
    /\ book' = r.data
    /\ out' = input_error(r)
    /\ ret' = r.val
    /\ UNCHANGED <<pc, file>>

\* lines 215-240: one iteration of the loop on user_input.split() = tokens
main_loop(tokens, today) ==
    /\ line' = tokens
    /\ UNCHANGED <<arg, res>>
    /\ IF tokens = <<>>
       THEN \* `command, *args = []` raises ValueError outside any handler
            /\ pc' = "crashed"
            /\ out' = "ValueError: not enough values to unpack"
            /\ ret' = <<>>
            /\ clock' = None
            /\ UNCHANGED <<file, book>>
       ELSE LET command == tokens[1]
                args == Tail(tokens)
            IN  IF command \in {"close", "exit"}
                THEN /\ file' = save_data(book)
                     /\ out' = "Good bye!"
                     /\ pc' = "exited"
                     /\ ret' = <<>>
                     /\ clock' = None
                     /\ UNCHANGED book
                ELSE IF command = "hello"
                THEN /\ out' = "How can I help you?"
                     /\ ret' = <<>>
                     /\ clock' = None
                     /\ UNCHANGED <<pc, file, book>>
                ELSE IF command = "add"
                THEN Handled(add_contact(args, book)) /\ clock' = None
                ELSE IF command = "change"
                THEN Handled(change_contact(args, book)) /\ clock' = None
                ELSE IF command = "phone"
                THEN Handled(show_phone(args, book)) /\ clock' = None
                ELSE IF command = "all"
                THEN Handled(show_all(book)) /\ clock' = None
                ELSE IF command = "add-birthday"
                THEN Handled(add_birthday(args, book)) /\ clock' = None
                ELSE IF command = "show-birthday"
                THEN Handled(show_birthday(args, book)) /\ clock' = None
                ELSE IF command = "birthdays"
                THEN Handled(upcoming_birthdays(book, today)) /\ clock' = today
                ELSE /\ out' = "Invalid command."
                     /\ ret' = <<>>
                     /\ clock' = None
                     /\ UNCHANGED <<pc, file, book>>

\* lines 211-212: book = load_data(); an exception of pickle.load ends main()
Launch ==
    /\ pc = "start"
    /\ LET l == load_data(file)
       IN  IF l[1] = "ok"
           THEN /\ book' = l[2]
                /\ pc' = "loop"
                /\ out' = "Welcome to the assistant bot!"
           ELSE /\ pc' = "crashed"
                /\ out' = l[1]
                /\ UNCHANGED book
    /\ UNCHANGED <<file, line, ret, clock, arg, res>>

AnyToday == CHOOSE t \in Todays : TRUE

\* line 215: main() is waiting in input()
AtPrompt == pc = "loop"

CmdHello == AtPrompt /\ main_loop(<<"hello">>, AnyToday)

CmdAdd ==
    \E n \in Names, p \in PhoneInputs :
        /\ AtPrompt
        /\ \/ main_loop(<<"add", n, p>>, AnyToday)
           \/ \E b \in AddBirthdayInputs : main_loop(<<"add", n, p, b>>, AnyToday)

CmdChange ==
    \E n \in Names, old \in ValidPhones, new \in PhoneInputs :
        AtPrompt /\ main_loop(<<"change", n, old, new>>, AnyToday)

CmdPhone == \E n \in Names : AtPrompt /\ main_loop(<<"phone", n>>, AnyToday)

CmdAll == AtPrompt /\ main_loop(<<"all">>, AnyToday)

CmdAddBirthday ==
    \E n \in Names, b \in BirthdayInputs :
        AtPrompt /\ main_loop(<<"add-birthday", n, b>>, AnyToday)

CmdShowBirthday == \E n \in Names : AtPrompt /\ main_loop(<<"show-birthday", n>>, AnyToday)

CmdBirthdays == \E t \in Todays : AtPrompt /\ main_loop(<<"birthdays">>, t)

\* a command with too few or too many arguments
CmdBadArity ==
    /\ AtPrompt
    /\ \/ main_loop(<<"add">>, AnyToday)
       \/ main_loop(<<"add", "Ann">>, AnyToday)
       \/ main_loop(<<"change", "Ann", P1>>, AnyToday)
       \/ main_loop(<<"change", "Ann", P1, P2, P1>>, AnyToday)
       \/ main_loop(<<"phone">>, AnyToday)
       \/ main_loop(<<"add-birthday", "Ann">>, AnyToday)
       \/ main_loop(<<"show-birthday">>, AnyToday)

CmdExit == \E w \in {"close", "exit"} : AtPrompt /\ main_loop(<<w>>, AnyToday)

CmdUnknown ==
    \E w \in UnknownWords :
        /\ AtPrompt
        /\ \/ main_loop(<<w>>, AnyToday)
           \/ main_loop(<<w, "Ann">>, AnyToday)

\* the user enters an empty or whitespace-only line
CmdEmptyLine == AtPrompt /\ main_loop(<<>>, AnyToday)

\* no command has been read yet (split() never yields an empty token)
NoInput == <<"">>

\* the pure-function harness is not in use
PureIdle == arg = <<>> /\ res = <<>>

Init ==
    /\ pc = "start"
    /\ file \in InitialFiles
    /\ book = <<>>
    /\ line = NoInput
    /\ out = ""
    /\ ret = <<>>
    /\ clock = None
    /\ PureIdle

Next ==
    \/ Launch
    \/ CmdHello
    \/ CmdAdd
    \/ CmdChange
    \/ CmdPhone
    \/ CmdAll
    \/ CmdAddBirthday
    \/ CmdShowBirthday
    \/ CmdBirthdays
    \/ CmdBadArity
    \/ CmdExit
    \/ CmdUnknown
    \/ CmdEmptyLine

Spec == Init /\ [][Next]_vars

-----------------------------------------------------------------------------
(* Harness for the pure functions: main() is not started, `arg` holds the   *)
(* input and `res` the result.                                              *)

session == <<pc, file, book, line, out, ret, clock>>

NotStarted ==
    /\ pc = "start"
    /\ file = Absent
    /\ book = <<>>
    /\ line = NoInput
    /\ out = ""
    /\ ret = <<>>
    /\ clock = None

\* characters a phone text is typed from: a decimal digit, a non-ASCII digit,
\* a separator
PhoneAlphabet == {"5", "SUPERSCRIPT_TWO", "+"}

InitPhone == NotStarted /\ arg = <<>> /\ res = <<"pending", <<>>>>

TypeChar ==
    \E c \in PhoneAlphabet :
        /\ res[1] = "pending"
        /\ Len(arg) < MaxRawLen
        /\ arg' = Append(arg, c)
        /\ UNCHANGED <<res, session>>

\* Phone(arg)
CallPhone ==
    /\ res[1] = "pending"
    /\ res' = Phone(arg)
    /\ UNCHANGED <<arg, session>>

NextPhone == TypeChar \/ CallPhone

SpecPhone == InitPhone /\ [][NextPhone]_vars

RECURSIVE DatesOfYearFrom(_, _, _)
DatesOfYearFrom(y, m, acc) ==
    IF m > 12 THEN acc
    ELSE DatesOfYearFrom(y, m + 1, acc \cup {<<y, m, d>> : d \in 1..DaysInMonth(y, m)})

DatesOfYear(y) == DatesOfYearFrom(y, 1, {})

\* stored birthdays: every day of the leap year 2024, 05.01.1990, 25.12.1990
BirthdayValues == DatesOfYear(2024) \cup {<<1990, 1, 5>>, <<1990, 12, 25>>}

\* values of datetime.today().date(): every day of 2023 .. 2023 + YearSpan
TodayValues == UNION {DatesOfYear(y) : y \in 2023..(2023 + YearSpan)}

InitDate ==
    /\ NotStarted
    /\ arg \in (BirthdayValues \cup {None}) \X TodayValues
    /\ res = <<"pending", 0>>

\* record.days_to_birthday() with record.birthday = arg[1] on the day arg[2]
CallDaysToBirthday ==
    /\ res[1] = "pending"
    /\ res' = days_to_birthday(arg[1], arg[2])
    /\ UNCHANGED <<arg, session>>

NextDate == CallDaysToBirthday

SpecDate == InitDate /\ [][NextDate]_vars

-----------------------------------------------------------------------------
(* Properties of the pure functions                                         *)

\* C1: daysToNextBirthday never fails for a record that has a birthday: for
\* every stored birthday and every today (a 29 February birthday with a
\* non-leap target year included) it returns an integer instead of raising, and
\* neither does the upcoming-birthday scan of the `birthdays` command.
C1_NeverRaises ==
    /\ (res[1] # "pending" /\ arg[1] # None) => res[1] = "ok"
    /\ out # "Error: " \o ReplaceErr

\* the day of the year of a date, counted month by month
RECURSIVE DayOfYear(_)
DayOfYear(dt) ==
    IF dt[2] = 1 THEN dt[3]
    ELSE DaysInMonth(dt[1], dt[2] - 1) + DayOfYear(<<dt[1], dt[2] - 1, dt[3]>>)

YearLength(y) == IF IsLeap(y) THEN 366 ELSE 365

\* days from date a to date b, b in a's year or the next
DaysFromTo(a, b) ==
    IF b[1] = a[1] THEN DayOfYear(b) - DayOfYear(a)
    ELSE YearLength(a[1]) - DayOfYear(a) + DayOfYear(b)

\* the birthday's month/day in today's year is not strictly before today
NotBefore(b, t) == b[2] > t[2] \/ (b[2] = t[2] /\ b[3] >= t[3])

\* the year the next birthday falls in
TargetYear(b, t) == IF NotBefore(b, t) THEN t[1] ELSE t[1] + 1

\* the birthday's month/day exists in every year the computation visits:
\* today's year and, after the roll-over, today's year + 1
ExistsInTargetYear(b, t) ==
    /\ IsDate(t[1], b[2], b[3])
    /\ IsDate(TargetYear(b, t), b[2], b[3])

\* the general part of C3, shared by the claim as written and as amended
DaysToNextBirthdayLaw ==
    res[1] # "pending" =>
        LET b == arg[1]
            t == arg[2]
        IN  /\ b = None => res = <<"None", 0>>
            /\ (b # None /\ ExistsInTargetYear(b, t)) =>
                  /\ res[1] = "ok"
                  /\ res[2] = DaysFromTo(t, <<TargetYear(b, t), b[2], b[3]>>)
                  /\ res[2] >= 0
                  /\ (res[2] = 0) <=> (b[2] = t[2] /\ b[3] = t[3])

\* the spec's examples for today = 01.01.2025, with `n` days for 25.12.1990
DaysExamples(n) ==
    (res[1] # "pending" /\ arg[2] = <<2025, 1, 1>>) =>
        /\ arg[1] = <<1990, 1, 5>> => res = <<"ok", 4>>
        /\ arg[1] = <<1990, 12, 25>> => res = <<"ok", n>>

\* C3 (as written): for a birthday whose month/day exists in the target year,
\* daysToNextBirthday is the number of days from today to the birthday in
\* today's year, or in the next year when that date is strictly before today;
\* it is >= 0, and 0 exactly on the birthday; no value without a birthday;
\* with today = 01.01.2025, 05.01.1990 gives 4 and 25.12.1990 gives 359.
C3_Original == DaysToNextBirthdayLaw /\ DaysExamples(359)

\* C3 (amended): the same, with 25.12.1990 giving 358 on 01.01.2025.
C3_DaysToNextBirthday == DaysToNextBirthdayLaw /\ DaysExamples(358)

C3_Witness ==
    /\ arg = << <<1990, 12, 25>>, <<2025, 1, 1>> >>
    /\ res = <<"ok", 358>>

\* C9: validate_phone succeeds iff the input is exactly 10 characters, each a
\* decimal digit 0-9, and the stored phone then renders as the input; every
\* other string (other length, separators, '+', digit-like non-decimal
\* characters) is rejected.
C9_PhoneIffTenDecimalDigits ==
    res[1] # "pending" =>
        /\ (res[1] = "ok") <=>
              (Len(arg) = 10 /\ \A i \in 1..Len(arg) : arg[i] \in AsciiDigits)
        /\ res[1] = "ok" => PhoneStr(res[2]) = arg
        /\ res[1] # "ok" => res[1] = "ValueError"

-----------------------------------------------------------------------------
(* Properties of the session                                                *)

\* a text of exactly 10 decimal digits
TenDecimalDigits(t) == Len(t) = 10 /\ \A i \in 1..Len(t) : t[i] \in AsciiDigits

\* a DD.MM.YYYY text of a real calendar date
RealDateText(t) == Len(t) = 3 /\ IsDate(t[3], t[2], t[1])

\* the directory has a record of this name, and where
Present(data, name) == \E i \in 1..Len(data) : data[i].rec.name = name
Where(data, name) == CHOOSE i \in 1..Len(data) : data[i].rec.name = name

\* every record but the one of this name is the same in both directories
OthersSame(before, after, name) ==
    \A j \in 1..Len(before) :
        before[j].rec.name # name => (j <= Len(after) /\ after[j] = before[j])

\* the phones of a list that differ from `value`, in order
Without(phones, value) == SelectSeq(phones, LAMBDA q : q # value)

\* the step handles a change command with three arguments
ChangeStep == AtPrompt /\ Len(line') = 4 /\ line'[1] = "change"

\* C2: a change command on an existing contact whose new phone fails validation
\* ends in an error, and the record's phone list is the previous list with
\* every occurrence of the old value removed and nothing added; the birthday
\* and all other records are unchanged.
C2_FailedChangeRemovesOld ==
    [][(ChangeStep /\ Present(book, line'[2]) /\ ~TenDecimalDigits(line'[4])) =>
          LET name == line'[2]
              i == Where(book, name)
          IN  /\ out' = "Error: Phone number must be 10 digits."
              /\ Len(book') = Len(book)
              /\ OthersSame(book, book', name)
              /\ book'[i].key = book[i].key
              /\ book'[i].rec.name = name
              /\ book'[i].rec.birthday = book[i].rec.birthday
              /\ book'[i].rec.phones = Without(book[i].rec.phones, line'[3])
              /\ \A j \in 1..Len(book'[i].rec.phones) :
                    book'[i].rec.phones[j] # line'[3]
              /\ file' = file
      ]_vars

C2_Witness ==
    /\ line = <<"change", "Ann", P1, ShortPhone>>
    /\ out = "Error: Phone number must be 10 digits."
    /\ Present(book, "Ann")
    /\ book[Where(book, "Ann")].rec.phones = <<P2>>

\* the records with a birthday whose daysToNextBirthday lies in 0..days
InWindow(rec, days, today) ==
    /\ rec.birthday # None
    /\ days_to_birthday(rec.birthday, today)[1] = "ok"
    /\ days_to_birthday(rec.birthday, today)[2] \in 0..days

ExpectedUpcoming(data, days, today) ==
    SelectSeq(Values(data), LAMBDA r : InWindow(r, days, today))

\* C4: upcomingBirthdays(withinDays, today) returns exactly the records that
\* have a birthday and whose daysToNextBirthday(today) lies in [0, withinDays],
\* each once, in insertion order; the directory is unchanged by the scan.
C4_UpcomingExact ==
    [][(AtPrompt /\ line' = <<"birthdays">>) =>
          /\ out' # "Error: " \o ReplaceErr
          /\ ret' = ExpectedUpcoming(book, DefaultDays, clock')
          /\ book' = book
      ]_vars

\* the persisted state exists and cannot be decoded
Corrupt(f) == f.exists /\ Unpickle(f.bytes)[1] # "ok"

\* C5: load returns an empty Directory and no error when the source does not
\* exist; when the source exists and cannot be decoded it signals a fatal
\* error and returns no Directory, so no session runs (and none can save) over
\* a corrupt file.
C5_AbsentVsCorrupt ==
    /\ (~file.exists /\ pc # "start" /\ line = NoInput) =>
          (pc = "loop" /\ book = <<>> /\ out = "Welcome to the assistant bot!")
    /\ Corrupt(file) =>
          /\ pc \in {"start", "crashed"}
          /\ book = <<>>
          /\ pc = "crashed" => out = "UnpicklingError"

C5_Witness ==
    /\ pc = "crashed"
    /\ file = Truncated
    /\ out = "UnpicklingError"

C7_UnknownCommandIsInvalid ==
    [][(AtPrompt /\ line' # NoInput /\ (line' = <<>> \/ line'[1] \notin CommandWords)) =>
          /\ out' = "Invalid command."
          /\ book' = book
          /\ file' = file
          /\ pc' = "loop"
      ]_vars

\* the step handles an add command with a name and a phone
AddStep == AtPrompt /\ Len(line') >= 3 /\ line'[1] = "add"

\* the add command of the step passes validation
AddSucceeds == TenDecimalDigits(line'[3]) /\ (Len(line') = 3 \/ RealDateText(line'[4]))

KeysMatch(data) == \A i \in 1..Len(data) : data[i].key = data[i].rec.name

UniqueNames(data) ==
    \A i, j \in 1..Len(data) : data[i].rec.name = data[j].rec.name => i = j

\* what an add command does to the Directory, whatever it reports
UpsertLaw ==
    /\ KeysMatch(book') /\ UniqueNames(book')
    /\ AddStep =>
          LET name == line'[2]
              phone == line'[3]
              old == IF Present(book, name) THEN book[Where(book, name)].rec
                     ELSE [name |-> name, phones |-> <<>>, birthday |-> None]
          IN  /\ Present(book', name)
              /\ OthersSame(book, book', name)
              /\ IF Present(book, name)
                 THEN Len(book') = Len(book) /\ Where(book', name) = Where(book, name)
                 ELSE Len(book') = Len(book) + 1 /\ Where(book', name) = Len(book')
              /\ book'[Where(book', name)].rec.phones =
                    IF TenDecimalDigits(phone) THEN Append(old.phones, phone)
                    ELSE old.phones
              /\ book'[Where(book', name)].rec.birthday =
                    IF AddSucceeds /\ Len(line') > 3
                    THEN <<line'[4][3], line'[4][2], line'[4][1]>>
                    ELSE old.birthday

\* C8 (as written): add keeps one record per name, every key equals the name of
\* its record, a repeated add for an existing name reports "updated" and reuses
\* the record, whose phone list is the successfully added phones in order.
C8_Original ==
    [][/\ UpsertLaw
       /\ (AddStep /\ Present(book, line'[2])) => out' = "Contact updated."
      ]_vars

\* C8 (amended): the same, a repeated add for an existing name reporting
\* "updated" when it passes validation and the validation error otherwise,
\* never "added".
C8_UpsertKeepsOneRecord ==
    [][/\ UpsertLaw
       /\ (AddStep /\ Present(book, line'[2])) =>
             /\ AddSucceeds => out' = "Contact updated."
             /\ ~AddSucceeds =>
                   out' \in {"Error: " \o PhoneErr, "Error: " \o BirthdayErr}
      ]_vars

C8_Witness ==
    /\ line = <<"add", "Ann", P1>>
    /\ out = "Contact updated."
    /\ Len(book) = 1
    /\ book[1].key = "Ann"
    /\ book[1].rec.phones = <<P1, P1>>

\* add does not roll back: what the failing add commands leave behind
NoRollback ==
    /\ (AddStep /\ ~Present(book, line'[2]) /\ ~TenDecimalDigits(line'[3])) =>
          /\ out' = "Error: " \o PhoneErr
          /\ book' = Append(book, [key |-> line'[2],
                                   rec |-> [name |-> line'[2], phones |-> <<>>,
                                            birthday |-> None]])
    /\ (AddStep /\ Len(line') > 3 /\ TenDecimalDigits(line'[3])
          /\ ~RealDateText(line'[4])) =>
          LET name == line'[2]
              i == Where(book', name)
          IN  /\ out' = "Error: " \o BirthdayErr
              /\ Present(book', name)
              /\ book'[i].rec.phones =
                    (IF Present(book, name) THEN book[Where(book, name)].rec.phones
                     ELSE <<>>) \o <<line'[3]>>
              /\ book'[i].rec.birthday =
                    IF Present(book, name) THEN book[Where(book, name)].rec.birthday
                    ELSE None

\* C10 (as written): add with an invalid phone for a new name leaves an empty
\* record behind, add with a valid phone and an invalid birthday leaves the
\* phone appended and the birthday unchanged, and a following add for the same
\* name reports "Contact updated.", not "Contact added.".
C10_Original ==
    [][/\ NoRollback
       /\ (AddStep /\ Present(book, line'[2])) => out' = "Contact updated."
      ]_vars

\* C10 (amended): the same, the following add reporting "Contact updated."
\* when it passes validation, and in no case "Contact added.".
C10_AddDoesNotRollBack ==
    [][/\ NoRollback
       /\ (AddStep /\ Present(book, line'[2])) =>
             /\ out' # "Contact added."
             /\ AddSucceeds => out' = "Contact updated."
      ]_vars

C10_Witness ==
    /\ line = <<"add", "Ann", P1>>
    /\ out = "Contact updated."
    /\ Len(book) = 1
    /\ book[1].rec = [name |-> "Ann", phones |-> <<P1>>, birthday |-> None]

=============================================================================
